---------------------------- MODULE Spec2Model ----------------------------
(***************************************************************************)
(* Model of the ledgerlink smart contract (src/ledgerlink.py).             *)
(*                                                                         *)
(* Byte strings (str / bytearray values of the contract: codes, storage    *)
(* keys, URLs, script hashes) are sequences of byte values 0..255.         *)
(* The results of Main keep the Python type of the returned object         *)
(* (bool, str literal, bytearray read from storage, list).                 *)
(***************************************************************************)
EXTENDS Integers, Sequences, FiniteSets, TLC

(***************************************************************************)
(* boa builtins and literals                                               *)
(***************************************************************************)

\* boa.code.builtins.concat
concat(a, b) == a \o b

\* boa.code.builtins.substr(s, start, length), start counted from 0
substr(s, start, length) == SubSeq(s, start + 1, start + length)

\* OWNER = b'\x00' * 20
OWNER == [k \in 1..20 |-> 0]

SHORTENER_URL == "https://ledgr.link"

arg_length_error == "Incorrect number of arguments"

unknown_operation == "unknown operation"

\* '123456789ABCDEFGHJKLMNPQRSTUVWXYZabcdefghijkmnopqrstuvwxyz' (ASCII codes)
alphabet ==
  << 49, 50, 51, 52, 53, 54, 55, 56, 57,
     65, 66, 67, 68, 69, 70, 71, 72, 74, 75, 76, 77, 78,
     80, 81, 82, 83, 84, 85, 86, 87, 88, 89, 90,
     97, 98, 99, 100, 101, 102, 103, 104, 105, 106, 107,
     109, 110, 111, 112, 113, 114, 115, 116, 117, 118, 119, 120, 121, 122 >>

\* '\x00', the initial value of code in b58encode
NUL == << 0 >>

\* '__url'
url_suffix == << 95, 95, 117, 114, 108 >>

\* '__sender'
sender_suffix == << 95, 95, 115, 101, 110, 100, 101, 114 >>

(***************************************************************************)
(* The integer the encoder sees when it is handed a byte string (sender,   *)
(* url): the bytes read as an unsigned little-endian number.               *)
(***************************************************************************)
RECURSIVE BytesToInt(_)
BytesToInt(b) == IF b = << >> THEN 0 ELSE Head(b) + 256 * BytesToInt(Tail(b))

(***************************************************************************)
(* b58encode: the while loop, one call per iteration.                      *)
(***************************************************************************)
RECURSIVE b58loop(_, _, _, _)
b58loop(i, code, current_length, max_length) ==
  IF i # 0 /\ current_length < max_length
    THEN LET newi == i \div 58
             idx  == i % 58
             c    == substr(alphabet, idx, 1)
         IN  b58loop(newi,
                     IF code = NUL THEN c ELSE concat(c, code),
                     current_length + 1,
                     max_length)
    ELSE code

\* mutant: the loop test written current_length <= max_length
b58encode_offbyone(i, max_length) == b58loop(i, NUL, 0, max_length + 1)

b58encode(i, max_length) == b58loop(i, NUL, 0, max_length)

\* mutant: the suffix put in front of the code
get_contextkey_for_url_prefixed(code) == concat(url_suffix, code)

get_contextkey_for_url(code) == concat(code, url_suffix)

\* mutant: the sender filed under the url key
get_contextkey_for_sender_asurl(code) == concat(code, url_suffix)

get_contextkey_for_sender(code) == concat(code, sender_suffix)


(***************************************************************************)
(* Bounds and input domains                                                *)
(***************************************************************************)

\* invocations of Main in one behaviour
MaxInvocations == 2

\* chain heights at which invocations are made (GetHeight)
Heights == {1, 59}

\* a 20-byte script hash whose low bytes are b
ScriptHash(b) == b \o [k \in 1..(20 - Len(b)) |-> 0]

\* script hashes of the first reference of the invoking transaction, with integer
\* views 0, 1, 59 and 3423
Senders == {OWNER, ScriptHash(<< 1 >>), ScriptHash(<< 59 >>), ScriptHash(<< 95, 13 >>)}

\* tx.References of the invoking transaction: empty, or one input of a sender
ReferenceLists == {<< >>} \cup {<< s >> : s \in Senders}

\* URL payloads: '', '\x01' (1), ';' (59), '_\r' (3423 = 59 + 58^2)
URLs == {<< >>, << 1 >>, << 59 >>, << 95, 13 >>}

Triggers == {"Verification", "Application", "VerificationR"}

Operations == {"shortenerURL", "addURL", "getURL", "getURLInfo", "frobnicate"}

\* sets of script hashes that witnessed the invoking transaction
WitnessSets == {{}, {OWNER}, {ScriptHash(<< 1 >>)}}

(***************************************************************************)
(* Host interface                                                          *)
(***************************************************************************)

Verification == "Verification"

Application == "Application"

CheckWitness(hash, witnesses) == hash \in witnesses

\* Storage.Get: the stored value, or the empty byte array for an absent key
Get(context, key) == IF key \in DOMAIN context THEN context[key] ELSE << >>

\* Storage.Put
Put(context, key, value) ==
  [k \in (DOMAIN context) \cup {key} |-> IF k = key THEN value ELSE context[k]]

(***************************************************************************)
(* Values returned by Main, by Python type                                 *)
(***************************************************************************)

Result(kind, bool, str, bytes, items) ==
  [kind |-> kind, bool |-> bool, str |-> str, bytes |-> bytes, items |-> items]

Bool(b) == Result("bool", b, "", << >>, << >>)

Str(s) == Result("str", FALSE, s, << >>, << >>)

Bytes(b) == Result("bytes", FALSE, "", b, << >>)

List(items) == Result("list", FALSE, "", << >>, items)

\* the invocation faulted (index out of range): nothing is returned
Fault == Result("fault", FALSE, "", << >>, << >>)

\* no invocation has returned yet / add_url is still running
Pending == Result("pending", FALSE, "", << >>, << >>)

(***************************************************************************)
(* Pure parts of the contract methods                                      *)
(***************************************************************************)

\* mutant: the sender segment and the url segment swapped
add_url_code_swapped(current_height, sender, url) ==
  LET s1 == b58encode(current_height, 11)
      s2 == b58encode(BytesToInt(sender), 2)
      s3 == b58encode(BytesToInt(url), 2)
  IN  concat(concat(s1, s3), s2)

\* add_url, lines 110-115: the generated code
add_url_code(current_height, sender, url) ==
  LET s1 == b58encode(current_height, 11)
      s2 == b58encode(BytesToInt(sender), 2)
      s3 == b58encode(BytesToInt(url), 2)
      code_part1 == concat(s1, s2)
  IN  concat(code_part1, s3)

get_url(context, code) == Get(context, get_contextkey_for_url(code))

\* mutant: the sender read from the url key
get_url_info_samekey(context, code) ==
  << Get(context, get_contextkey_for_url(code)),
     Get(context, get_contextkey_for_url(code)) >>

get_url_info(context, code) ==
  LET contextkey_for_url    == get_contextkey_for_url(code)
      contextkey_for_sender == get_contextkey_for_sender(code)
      url    == Get(context, contextkey_for_url)
      sender == Get(context, contextkey_for_sender)
  IN  << url, sender >>

(***************************************************************************)
(* State                                                                   *)
(***************************************************************************)
VARIABLES
  store,       \* the contract's persistent storage: key -> value
  height,      \* current height of the chain
  pc,          \* "idle", or the next statement of a running add_url
  ninv,        \* invocations of Main started so far
  inv,         \* inputs of the current / last invocation of Main (witnesses:
               \* what CheckWitness is asked about, in verification mode only)
  locals,      \* current_height, sender, url, code of the running / latest add_url
  added,       \* the locals of every add_url run so far
  effects,     \* Notify / Put / urladd calls of the current / last invocation, in order
  pre_store,   \* the storage when the current / last invocation started
  result,      \* what the last invocation returned
  enc_i, enc_n, enc_out, enc_done   \* one call of b58encode and its result

vars == << store, height, pc, ninv, inv, locals, added, effects, pre_store, result,
           enc_i, enc_n, enc_out, enc_done >>

encvars == << enc_i, enc_n, enc_out, enc_done >>

mainvars == << store, height, pc, ninv, inv, locals, added, effects, pre_store, result >>

NoLocals == [current_height |-> 0, sender |-> << >>, url |-> << >>, code |-> << >>]

Invocation(trigger, operation, args, witnesses) ==
  [trigger |-> trigger, operation |-> operation, args |-> args, witnesses |-> witnesses]

Effect(op, a, b) == [op |-> op, a |-> a, b |-> b]

\* codes that have a key in the storage
KnownCodes ==
  {SubSeq(k, 1, Len(k) - Len(url_suffix)) :
     k \in {x \in DOMAIN store : Len(x) >= Len(url_suffix)
              /\ SubSeq(x, Len(x) - Len(url_suffix) + 1, Len(x)) = url_suffix}}

\* every code add_url can generate from the input domains
AllCodes == {add_url_code(h, s, u) : h \in Heights, s \in Senders, u \in URLs}

\* argument values: URLs, stored codes, and one code that was never added
ArgValues ==
  URLs \cup KnownCodes
       \cup (IF AllCodes \subseteq KnownCodes THEN {}
             ELSE {CHOOSE c \in AllCodes : c \notin KnownCodes})

\* argument lists of every length 0, 1, 2
ArgLists ==
  {<< >>} \cup {<< x >> : x \in ArgValues} \cup {<< << 59 >>, << 59 >> >>}

\* argument lists for the branches that never look at an argument
StaticArgLists == {<< >>, << << 59 >> >>, << << 59 >>, << 59 >> >>}

\* argument lists handed to addURL with one argument: a URL payload
URLArgLists == {<< x >> : x \in URLs}

Init ==
  /\ store = << >>
  /\ height = 1
  /\ pc = "idle"
  /\ ninv = 0
  /\ inv = Invocation("", "", << >>, {})
  /\ locals = NoLocals
  /\ added = {}
  /\ effects = << >>
  /\ pre_store = << >>
  /\ result = Pending
  /\ enc_i = 0
  /\ enc_n = 0
  /\ enc_out = << >>
  /\ enc_done = FALSE

(***************************************************************************)
(* Main: the branches that return without calling add_url                  *)
(***************************************************************************)

\* Main returns res at once: nothing is notified, stored or dispatched
Return(invocation, res) ==
  /\ inv' = invocation
  /\ ninv' = ninv + 1
  /\ result' = res
  /\ effects' = << >>
  /\ pre_store' = store
  /\ UNCHANGED << store, height, pc, locals, added >>
  /\ UNCHANGED encvars

\* mutant: the owner check dropped, every verification is allowed
MainVerification_noCheck ==
  /\ pc = "idle" /\ ninv < MaxInvocations
  /\ \E operation \in Operations, args \in StaticArgLists, witnesses \in WitnessSets :
       Return(Invocation(Verification, operation, args, witnesses), Bool(TRUE))

\* Main, lines 64-69
MainVerification ==
  /\ pc = "idle" /\ ninv < MaxInvocations
  /\ \E operation \in Operations, args \in StaticArgLists, witnesses \in WitnessSets :
       LET is_owner == CheckWitness(OWNER, witnesses)
       IN  Return(Invocation(Verification, operation, args, witnesses),
                  IF is_owner THEN Bool(TRUE) ELSE Bool(FALSE))

\* Main, lines 71-73
MainShortenerURL ==
  /\ pc = "idle" /\ ninv < MaxInvocations
  /\ \E args \in StaticArgLists :
       Return(Invocation(Application, "shortenerURL", args, {}),
              Str(SHORTENER_URL))

\* Main, lines 80-84
MainGetURL ==
  /\ pc = "idle" /\ ninv < MaxInvocations
  /\ \E args \in ArgLists :
       /\ Len(args) = 1
       /\ LET code == args[1]
          IN  Return(Invocation(Application, "getURL", args, {}),
                     Bytes(get_url(store, code)))

\* Main, lines 86-90
MainGetURLInfo ==
  /\ pc = "idle" /\ ninv < MaxInvocations
  /\ \E args \in ArgLists :
       /\ Len(args) = 1
       /\ LET code == args[1]
          IN  Return(Invocation(Application, "getURLInfo", args, {}),
                     List(get_url_info(store, code)))

\* mutant: only the empty argument list is rejected
MainArgLengthError_emptyOnly ==
  /\ pc = "idle" /\ ninv < MaxInvocations
  /\ \E operation \in {"addURL", "getURL", "getURLInfo"},
        args \in ArgLists :
       /\ Len(args) # 1
       /\ Return(Invocation(Application, operation, args, {}),
                 IF Len(args) = 0 THEN Str(arg_length_error)
                 ELSE Bytes(get_url(store, args[1])))

\* Main, lines 79, 85, 91
MainArgLengthError ==
  /\ pc = "idle" /\ ninv < MaxInvocations
  /\ \E operation \in {"addURL", "getURL", "getURLInfo"},
        args \in ArgLists :
       /\ Len(args) # 1
       /\ Return(Invocation(Application, operation, args, {}),
                 Str(arg_length_error))

\* mutant: an unknown operation falls through to the final return False
MainUnknownOperation_false ==
  /\ pc = "idle" /\ ninv < MaxInvocations
  /\ \E operation \in Operations \ {"shortenerURL", "addURL", "getURL", "getURLInfo"},
        args \in StaticArgLists :
       Return(Invocation(Application, operation, args, {}), Bool(FALSE))

\* Main, lines 93-94
MainUnknownOperation ==
  /\ pc = "idle" /\ ninv < MaxInvocations
  /\ \E operation \in Operations \ {"shortenerURL", "addURL", "getURL", "getURLInfo"},
        args \in StaticArgLists :
       Return(Invocation(Application, operation, args, {}),
              Str(unknown_operation))

\* Main, line 96
MainOtherTrigger ==
  /\ pc = "idle" /\ ninv < MaxInvocations
  /\ \E trigger \in Triggers \ {Verification, Application},
        operation \in Operations, args \in StaticArgLists :
       Return(Invocation(trigger, operation, args, {}), Bool(FALSE))

(***************************************************************************)
(* Main -> add_url, statement by statement                                 *)
(***************************************************************************)

\* Main, lines 74-77, and add_url, line 107, on a transaction without inputs:
\* references[0] is out of range and the invocation faults
MainAddURL_NoReference ==
  /\ pc = "idle" /\ ninv < MaxInvocations
  /\ \E args \in URLArgLists, references \in ReferenceLists :
       /\ Len(args) = 1
       /\ references = << >>
       /\ Return(Invocation(Application, "addURL", args, {}), Fault)

\* Main, lines 74-77, and add_url, lines 102-116: up to and including Notify(code)
MainAddURL ==
  /\ pc = "idle" /\ ninv < MaxInvocations
  /\ \E args \in URLArgLists, references \in ReferenceLists :
       /\ Len(args) = 1
       /\ references # << >>
       /\ LET url            == args[1]
              current_height == height
              ref            == references[1]
              sender         == ref
              code           == add_url_code(current_height, sender, url)
          IN  /\ inv' = Invocation(Application, "addURL", args, {})
              /\ locals' = [current_height |-> current_height, sender |-> sender,
                            url |-> url, code |-> code]
              /\ added' = added \cup {[current_height |-> current_height,
                                        sender |-> sender, url |-> url, code |-> code]}
              /\ effects' = << Effect("Notify", code, << >>) >>
  /\ ninv' = ninv + 1
  /\ result' = Pending
  /\ pre_store' = store
  /\ pc' = "Put_url"
  /\ UNCHANGED << store, height >>
  /\ UNCHANGED encvars

\* mutant: the two Put statements in the other order
add_url_Put_url_senderFirst ==
  /\ pc = "Put_url"
  /\ LET contextkey_for_sender == get_contextkey_for_sender(locals.code)
     IN  /\ store' = Put(store, contextkey_for_sender, locals.sender)
         /\ effects' = Append(effects, Effect("Put", contextkey_for_sender, locals.sender))
  /\ pc' = "Put_sender"
  /\ UNCHANGED << height, ninv, inv, locals, added, pre_store, result >>
  /\ UNCHANGED encvars

\* add_url, lines 119-124
add_url_Put_url ==
  /\ pc = "Put_url"
  /\ LET contextkey_for_url == get_contextkey_for_url(locals.code)
     IN  /\ store' = Put(store, contextkey_for_url, locals.url)
         /\ effects' = Append(effects, Effect("Put", contextkey_for_url, locals.url))
  /\ pc' = "Put_sender"
  /\ UNCHANGED << height, ninv, inv, locals, added, pre_store, result >>
  /\ UNCHANGED encvars

\* add_url, line 125
add_url_Put_sender ==
  /\ pc = "Put_sender"
  /\ LET contextkey_for_sender == get_contextkey_for_sender(locals.code)
     IN  /\ store' = Put(store, contextkey_for_sender, locals.sender)
         /\ effects' = Append(effects, Effect("Put", contextkey_for_sender, locals.sender))
  /\ pc' = "DispatchNewURLEvent"
  /\ UNCHANGED << height, ninv, inv, locals, added, pre_store, result >>
  /\ UNCHANGED encvars

\* add_url, lines 128-130, and Main, line 78
add_url_DispatchNewURLEvent ==
  /\ pc = "DispatchNewURLEvent"
  /\ effects' = Append(effects, Effect("urladd", locals.code, locals.url))
  /\ result' = Bool(TRUE)
  /\ pc' = "idle"
  /\ UNCHANGED << store, height, ninv, inv, locals, added, pre_store >>
  /\ UNCHANGED encvars

\* the chain grows between invocations: GetHeight never decreases
NewBlock ==
  /\ pc = "idle"
  /\ \E h \in Heights : h > height /\ height' = h
  /\ UNCHANGED << store, pc, ninv, inv, locals, added, effects, pre_store, result >>
  /\ UNCHANGED encvars

Next ==
  \/ MainVerification
  \/ MainShortenerURL
  \/ MainAddURL
  \/ MainAddURL_NoReference
  \/ add_url_Put_url
  \/ add_url_Put_sender
  \/ add_url_DispatchNewURLEvent
  \/ MainGetURL
  \/ MainGetURLInfo
  \/ MainArgLengthError
  \/ MainUnknownOperation
  \/ MainOtherTrigger
  \/ NewBlock

Spec == Init /\ [][Next]_vars

(***************************************************************************)
(* b58encode on its own: one call per step                                 *)
(***************************************************************************)

\* largest integer of the dense range of encoder inputs (58^2 = 3364)
MaxEncInt == 3500

\* largest max_length of the dense range
MaxEncLength == 4

EncInts == (0 .. MaxEncInt) \cup {195112, 11316496, 656356767, 2147483647}

EncLengths == (-1 .. MaxEncLength) \cup {11}

Call_b58encode ==
  /\ ~enc_done
  /\ \E i \in EncInts, max_length \in EncLengths :
       /\ enc_i' = i
       /\ enc_n' = max_length
       /\ enc_out' = b58encode(i, max_length)
  /\ enc_done' = TRUE
  /\ UNCHANGED mainvars

NextEnc == Call_b58encode

SpecEnc == Init /\ [][NextEnc]_vars

(***************************************************************************)
(* Reference definitions used by the properties                            *)
(***************************************************************************)

RECURSIVE Pow58(_)
Pow58(k) == IF k = 0 THEN 1 ELSE 58 * Pow58(k - 1)

\* number of base-58 digits of i > 0 (i < 2^31 has at most 6)
NumDigits(i) == CHOOSE d \in 1..6 : Pow58(d - 1) <= i /\ (d = 6 \/ i < Pow58(d))

Min(a, b) == IF a <= b THEN a ELSE b

\* the min(n, d) least-significant base-58 digits of i, most significant first
RefEncode(i, n) ==
  IF i = 0 \/ n <= 0
    THEN << 0 >>
    ELSE LET m == Min(n, NumDigits(i))
         IN  [k \in 1..m |-> alphabet[((i \div Pow58(m - k)) % 58) + 1]]

AlphabetChars == {alphabet[k] : k \in 1..Len(alphabet)}

\* the code the specification prescribes for an add at height h by sender s of url u
RefCode(h, s, u) ==
  RefEncode(h, 11) \o RefEncode(BytesToInt(s), 2) \o RefEncode(BytesToInt(u), 2)

IsApplication == inv.trigger = "Application"

\* the current / last invocation is application-mode addURL with exactly one argument
IsAdd == IsApplication /\ inv.operation = "addURL" /\ Len(inv.args) = 1

\* ... and it ran add_url to its return
AddReturned == IsAdd /\ pc = "idle" /\ result.kind # "fault"

\* ... or it faulted on a transaction without inputs
AddFaulted == IsAdd /\ pc = "idle" /\ result.kind = "fault"

UrlKey(c) == c \o << 95, 95, 117, 114, 108 >>

SenderKey(c) == c \o << 95, 95, 115, 101, 110, 100, 101, 114 >>

(***************************************************************************)
(* C1  Round trip                                                          *)
(***************************************************************************)

C2_AppendOnly ==
  \A k \in DOMAIN pre_store : k \in DOMAIN store /\ store[k] = pre_store[k]

(***************************************************************************)
(* C3  Verification gate                                                   *)
(***************************************************************************)

\* C3: in verification mode Main returns true iff the owner witnessed the
\* transaction, whatever the operation and arguments; nothing is stored, notified
\* or dispatched.
C3_VerificationGate ==
  inv.trigger = "Verification" =>
    /\ pc = "idle"
    /\ result = Bool(OWNER \in inv.witnesses)
    /\ store = pre_store
    /\ effects = << >>

\* verification of "addURL" with one argument, witnessed by a non-owner, over a
\* non-empty store: refused
C3_Witness ==
  /\ inv.trigger = "Verification" /\ inv.operation = "addURL" /\ Len(inv.args) = 1
  /\ inv.witnesses # {} /\ OWNER \notin inv.witnesses
  /\ result = Bool(FALSE)
  /\ DOMAIN store # {}

(***************************************************************************)
(* C4  Dispatch argument validation                                        *)
(***************************************************************************)

\* C4: in application mode addURL, getURL and getURLInfo with an argument list of
\* length other than 1 return the argument-count sentinel and run nothing; with
\* exactly one argument they are delegated and do not return the sentinel.
C4_ArgumentValidation ==
  (IsApplication /\ inv.operation \in {"addURL", "getURL", "getURLInfo"}) =>
    /\ Len(inv.args) # 1 =>
         /\ pc = "idle"
         /\ result = Str("Incorrect number of arguments")
         /\ effects = << >>
         /\ store = pre_store
    /\ Len(inv.args) = 1 =>
         /\ result # Str("Incorrect number of arguments")
         /\ inv.operation = "getURL" =>
              result = Bytes(Get(store, UrlKey(inv.args[1])))
         /\ inv.operation = "getURLInfo" =>
              result = List(<< Get(store, UrlKey(inv.args[1])),
                               Get(store, SenderKey(inv.args[1])) >>)
         /\ inv.operation = "addURL" =>
              \/ result = Fault
              \/ /\ Len(effects) >= 1
                 /\ effects[1].op = "Notify"
                 /\ locals.url = inv.args[1]

\* getURL with two arguments over a non-empty store got the sentinel
C4_Witness ==
  /\ IsApplication /\ inv.operation = "getURL" /\ Len(inv.args) = 2
  /\ result = Str("Incorrect number of arguments")
  /\ DOMAIN store # {}

(***************************************************************************)
(* C5  Unknown operation                                                   *)
(***************************************************************************)

\* C5: in application mode any operation name other than the four known ones
\* returns the string 'unknown operation' (a value, not a fault) and leaves the
\* store unchanged.
C5_UnknownOperation ==
  (IsApplication
     /\ inv.operation \notin {"shortenerURL", "addURL", "getURL", "getURLInfo"}) =>
    /\ pc = "idle"
    /\ result = Str("unknown operation")
    /\ store = pre_store
    /\ effects = << >>

\* 'frobnicate' with one argument over a non-empty store
C5_Witness ==
  /\ IsApplication /\ inv.operation = "frobnicate" /\ Len(inv.args) = 1
  /\ result = Str("unknown operation")
  /\ DOMAIN store # {}

(***************************************************************************)
(* C6  Missing keys                                                        *)
(***************************************************************************)

AddedCodes == {a.code : a \in added}

\* C6: getURL of a code no add ever generated returns the empty value, not a
\* fault; getURLInfo returns a two-element list whose fields are, each on its
\* own, the stored value when its key is present and the empty value when not.
C6_MissingKey ==
  /\ (pc = "idle" /\ IsApplication /\ inv.operation = "getURL" /\ Len(inv.args) = 1
        /\ inv.args[1] \notin AddedCodes) =>
       result = Bytes(<< >>)
  /\ (pc = "idle" /\ IsApplication /\ inv.operation = "getURLInfo"
        /\ Len(inv.args) = 1) =>
       /\ result.kind = "list"
       /\ Len(result.items) = 2
       /\ result.items[1] = IF UrlKey(inv.args[1]) \in DOMAIN store
                              THEN store[UrlKey(inv.args[1])] ELSE << >>
       /\ result.items[2] = IF SenderKey(inv.args[1]) \in DOMAIN store
                              THEN store[SenderKey(inv.args[1])] ELSE << >>
       /\ inv.args[1] \notin AddedCodes => result.items = << << >>, << >> >>

\* getURL of a well-formed code that was never added, over a non-empty store
C6_Witness ==
  /\ pc = "idle" /\ IsApplication /\ inv.operation = "getURL" /\ Len(inv.args) = 1
  /\ inv.args[1] \in AllCodes \ AddedCodes
  /\ AddedCodes # {}
  /\ result = Bytes(<< >>)

(***************************************************************************)
(* C7  Bounded base-58 fragment encoding (checked under SpecEnc)           *)
(***************************************************************************)

\* C7: b58encode(i, n) is the single NUL byte when i = 0 or n <= 0, and otherwise
\* the min(n, d) least-significant base-58 digits of i, most significant first,
\* over the alphabet: at most n characters, all of the alphabet, none of them NUL.
C7_EncodeMatchesReference ==
  enc_done =>
    /\ enc_out = RefEncode(enc_i, enc_n)
    /\ (enc_i = 0 \/ enc_n <= 0) => enc_out = << 0 >>
    /\ (enc_i > 0 /\ enc_n > 0) =>
         /\ Len(enc_out) >= 1
         /\ Len(enc_out) <= enc_n
         /\ Len(enc_out) = Min(enc_n, NumDigits(enc_i))
         /\ \A k \in 1..Len(enc_out) : enc_out[k] \in AlphabetChars /\ enc_out[k] # 0

\* 3423 = 1*58^2 + 1*58 + 1 cut to its two low digits: '22'
C7_Witness ==
  enc_done /\ enc_i = 3423 /\ enc_n = 2 /\ enc_out = << 50, 50 >>

(***************************************************************************)
(* C8  Segment composition                                                 *)
(***************************************************************************)

\* C8: the code of an add at height h by sender s of url is
\* b58encode(h, 11) ++ b58encode(s, 2) ++ b58encode(url, 2), the segments at most
\* 11, 2 and 2 long; that code is the one notified, the one both storage keys are
\* derived from and the one the urladd event carries; equal (h, s, url) give
\* equal codes.
C8_SegmentComposition ==
  /\ \A a \in added :
       /\ a.code = RefCode(a.current_height, a.sender, a.url)
       /\ Len(b58encode(a.current_height, 11)) <= 11
       /\ Len(b58encode(BytesToInt(a.sender), 2)) <= 2
       /\ Len(b58encode(BytesToInt(a.url), 2)) <= 2
       /\ Len(a.code) <= 15
  /\ \A a, b \in added :
       (a.current_height = b.current_height /\ a.sender = b.sender /\ a.url = b.url)
         => a.code = b.code
  /\ (IsAdd /\ result # Fault) =>
       LET code == RefCode(locals.current_height, locals.sender, inv.args[1])
       IN  /\ locals \in added
           /\ locals.url = inv.args[1]
           /\ pc # "idle" => locals.current_height = height
           /\ effects[1] = Effect("Notify", code, << >>)
           /\ \A k \in 2..Len(effects) :
                \/ effects[k].op = "Put"
                     /\ effects[k].a \in {UrlKey(code), SenderKey(code)}
                \/ effects[k].op = "urladd" /\ effects[k].a = code

\* height 1, the all-zero sender, url 3423: '2' NUL '22', a NUL in the middle
C8_Witness ==
  /\ AddReturned
  /\ locals.current_height = 1 /\ locals.sender = OWNER /\ locals.url = << 95, 13 >>
  /\ effects[4] = Effect("urladd", << 50, 0, 50, 50 >>, << 95, 13 >>)

(***************************************************************************)
(* C9  Order of add's effects                                              *)
(***************************************************************************)

ExpectedEffects ==
  << Effect("Notify", locals.code, << >>),
     Effect("Put", UrlKey(locals.code), inv.args[1]),
     Effect("Put", SenderKey(locals.code), locals.sender),
     Effect("urladd", locals.code, inv.args[1]) >>

PutKeys == {effects[k].a : k \in {j \in 1..Len(effects) : effects[j].op = "Put"}}

\* C10: only application-mode addURL with exactly one argument changes the store
\* or emits anything, and it writes exactly the keys code__url and code__sender of
\* its code; every other invocation leaves every key unchanged and emits nothing;
\* every key of the store is code__url or code__sender of a generated code.
C10_Frame ==
  /\ (~IsAdd \/ AddFaulted) => (store = pre_store /\ effects = << >>)
  /\ IsAdd =>
       \A k \in DOMAIN store \ {UrlKey(locals.code), SenderKey(locals.code)} :
         k \in DOMAIN pre_store /\ store[k] = pre_store[k]
  /\ IsAdd => DOMAIN pre_store \subseteq DOMAIN store
  /\ AddReturned =>
       /\ PutKeys = {UrlKey(locals.code), SenderKey(locals.code)}
       /\ Cardinality({k \in 1..Len(effects) : effects[k].op = "Put"}) = 2
       /\ DOMAIN store = DOMAIN pre_store \cup PutKeys
  /\ \A k \in DOMAIN store :
       \E c \in AddedCodes : k = UrlKey(c) \/ k = SenderKey(c)

\* an add that returned and took the store from two keys to four
C10_Witness ==
  /\ AddReturned
  /\ Cardinality(DOMAIN pre_store) = 2
  /\ Cardinality(DOMAIN store) = 4

=============================================================================
